---- MODULE Spec2Model ----
(***************************************************************************)
(* Job scheduler, job runner and recent-activity log of                    *)
(* railway-backend/main.py (JobManager, add_to_recent_posts and the        *)
(* endpoints that call them).                                              *)
(*                                                                         *)
(* Threads.  The request handlers are coroutines of one event loop and     *)
(* contain no await, so a handler runs to completion before the next one   *)
(* starts; they are the "main" thread of the model.  Every started job     *)
(* runs on a threading.Thread of its own, which interleaves with the main  *)
(* thread and with the other runners between any two accesses to the       *)
(* shared objects (jobs, recent_posts_storage).  A runner step of the      *)
(* model therefore holds at most one access to shared state, followed by   *)
(* the thread-local work up to the next one.  Handlers that touch shared   *)
(* state once (start, stop, pause, create) are single steps.               *)
(***************************************************************************)
EXTENDS Integers, Sequences, FiniteSets, TLC

(* ------------------------------ bounds --------------------------------- *)
MaxJobs == 1
    \* job records the store may hold
MaxQueue == 2
    \* longest approvedContent list a create request carries
MaxThreads == 2
    \* runner threads ever spawned
MaxClock == 1
    \* last second the clock reaches
MaxDirect == 2
    \* direct post requests accepted
MaxItems == 3
    \* longest content_items list a post-scheduled-content request carries

(* --------------------------- program constants -------------------------- *)
LogCap == 50
    \* main.py:296  "if len(recent_posts_storage) > 50"
None == -1
    \* Python None in a field that otherwise holds a timestamp

JobTypes == {"posting", "replying", "other"}
    \* request.get("type", ...): any string; "other" stands for every value
    \* that is neither "posting" nor "replying"
Prefixes == {"posting_job", "reply_job"}
AllIds == {<<p, s>> : p \in Prefixes, s \in 0..MaxClock}
    \* f"posting_job_{int(time.time())}", f"reply_job_{int(time.time())}"

Item(k) == [content |-> k, tweetId |-> k]
    \* one approvedContent element: its text and, for a reply, its target
Queue(n) == [k \in 1..n |-> Item(k)]
QueueInputs == {Queue(n) : n \in 0..MaxQueue}
    \* the approvedContent lists requests carry: distinct items, so that
    \* order is visible
BlankQueue == <<[content |-> 0, tweetId |-> 1]>>
    \* one item whose content is the empty string
NoTargetQueue == <<[content |-> 1, tweetId |-> 0]>>
    \* one reply item whose tweetId is the empty string
LongQueue == Queue(LogCap + 1)
    \* a batch with more items than the log holds

VARIABLES
    jobs,                    \* JobManager.jobs: id -> job record
    running_threads,         \* JobManager.running_threads: id -> thread
    threads,                 \* the runner threads, in spawn order
    recent_posts_storage,    \* the recent-activity log, newest first
    main,                    \* the event-loop thread: idle, or inside a handler
    TWITTER_POSTER_AVAILABLE,\* set once at import time
    clock,                   \* time.time() / datetime.now(), in seconds
    direct,                  \* direct post requests accepted so far
    obs                      \* per-thread history, read only by properties

vars == <<jobs, running_threads, threads, recent_posts_storage, main,
          TWITTER_POSTER_AVAILABLE, clock, direct, obs>>

(* ------------------------------ helpers -------------------------------- *)
Min(a, b) == IF a < b THEN a ELSE b

Take(s, n) == SubSeq(s, 1, Min(n, Len(s)))
    \* Python s[:n]

Live(t) == threads[t].pc # "exit"
    \* spawned by start_job and not yet returned

LiveRunners(id) == {t \in 1..Len(threads) : threads[t].job = id /\ Live(t)}

(* ------------------------ add_to_recent_posts --------------------------- *)
\* faulty variant of lines 272-276: the counters of the sample post of
\* line 242
make_post_sample(tweet_id, content, type, replied_to) ==
    [id |-> tweet_id,
     content |-> content,
     type |-> type,
     engagement |-> [likes |-> 5, retweets |-> 1, replies |-> 2],
     replied_to |-> IF type = "reply" /\ replied_to # <<>>
                    THEN replied_to ELSE <<>>]

\* lines 268-290: the stored post built from post_data
\* (replied_to is <<>> when post_data carries none, else <<target id>>)
make_post(tweet_id, content, type, replied_to) ==
    [id |-> tweet_id,
     content |-> content,
     type |-> type,
     engagement |-> [likes |-> 0, retweets |-> 0, replies |-> 0],
     replied_to |-> IF type = "reply" /\ replied_to # <<>>
                    THEN replied_to ELSE <<>>]

\* faulty variant of line 293: the post is appended at the back
list_insert_back(log, post) == log \o <<post>>

\* line 293: recent_posts_storage.insert(0, post)
list_insert(log, post) == <<post>> \o log

\* line 296: len(recent_posts_storage) > 50
over_cap(log) == Len(log) > LogCap

\* faulty variant of line 297: the newest entry is the one cut off
list_slice_tail(log) == SubSeq(log, Len(log) - LogCap + 1, Len(log))

\* line 297, right-hand side: recent_posts_storage[:50]
list_slice(log) == Take(log, LogCap)

Prefill(n) == [k \in 1..n |-> make_post("sim", 100 + k, "post", <<>>)]

(* ------------------------------- Init ---------------------------------- *)
\* The log is empty at process start.  Prefill(n) is the log that n earlier
\* direct posts leave behind; the model starts from it instead of replaying
\* them, so that the 50-entry cap is within reach.
InitWith(lens) ==
    /\ jobs = [x \in {} |-> 0]
    /\ running_threads = [x \in {} |-> 0]
    /\ threads = <<>>
    /\ recent_posts_storage \in {Prefill(n) : n \in lens}
    /\ main = [pc |-> "idle", tmp |-> <<>>]
    /\ TWITTER_POSTER_AVAILABLE \in BOOLEAN
    /\ clock = 0
    /\ direct = 0
    /\ obs = <<>>

Init == InitWith({0, LogCap - 1})

InitLog == InitWith({LogCap - 1, LogCap})

(* ----------------------------- the clock -------------------------------- *)
Tick ==
    /\ clock < MaxClock
    /\ clock' = clock + 1
    /\ UNCHANGED <<jobs, running_threads, threads, recent_posts_storage, main,
                   TWITTER_POSTER_AVAILABLE, direct, obs>>

(* --------------------------- history (obs) ------------------------------ *)
\* obs[t] is the history of runner t that the properties read; the program
\* never reads it.
\*   afterStop  0: stop_job has not hit its job while it was live;
\*              k > 0: it has, and the runner began k-1 Social Poster calls
\*              since (counted up to 2)
\*   succ       posts the Social Poster reported as successful
NewObs == [afterStop |-> 0, succ |-> 0]

StopSeen(id) ==
    [t \in 1..Len(obs) |->
        IF threads[t].job = id /\ Live(t) /\ obs[t].afterStop = 0
        THEN [obs[t] EXCEPT !.afterStop = 1]
        ELSE obs[t]]

CallBegins(t) ==
    [obs EXCEPT ![t].afterStop = IF @ = 0 THEN 0 ELSE Min(@ + 1, 3)]

(* ----------------------------- JobManager ------------------------------- *)
\* lines 337-352: the record create_job builds
create_job(job_id, type, name, approved_content) ==
    [id |-> job_id,
     name |-> name,
     type |-> type,
     status |-> "stopped",
     createdAt |-> clock,
     lastRun |-> None,
     nextRun |-> None,
     stats |-> [postsToday |-> 0, repliesToday |-> 0, successRate |-> 100],
     approved_content |-> approved_content]

\* faulty variant of line 354: the store is replaced by the new record
Store_only(id, job) == [x \in {id} |-> job]

\* line 354: self.jobs[job_id] = job
Store(id, job) ==
    [x \in DOMAIN jobs \cup {id} |-> IF x = id THEN job ELSE jobs[x]]

\* the two create endpoints, which differ in the id prefix and default name
Create(prefix, type, name, queue) ==
    LET id == <<prefix, clock>> IN
    /\ main.pc = "idle"
    /\ jobs' = Store(id, create_job(id, type, name, queue))
    /\ UNCHANGED <<running_threads, threads, recent_posts_storage, main,
                   TWITTER_POSTER_AVAILABLE, clock, direct, obs>>

\* lines 723-770
create_posting_job(type, queue) ==
    Create("posting_job", type, "Untitled Job", queue)

\* lines 772-813
create_reply_job(type, queue) ==
    Create("reply_job", type, "Untitled Reply Job", queue)

\* The id of the request is not in the store yet, and the store has room:
\* the requests of the scheduler model, which keeps to MaxJobs jobs.
Fresh(prefix) ==
    /\ <<prefix, clock>> \notin DOMAIN jobs
    /\ Cardinality(DOMAIN jobs) < MaxJobs

new_posting_job(type, queue) ==
    Fresh("posting_job") /\ create_posting_job(type, queue)

new_reply_job(type, queue) ==
    Fresh("reply_job") /\ create_reply_job(type, queue)

\* lines 358-383: what start_job returns
start_job_returns(id) ==
    IF id \notin DOMAIN jobs THEN FALSE
    ELSE IF jobs[id].status = "running" THEN TRUE
    ELSE jobs[id].type \in {"posting", "replying"}

\* faulty variant of lines 371-374: the runner resumes after the items the
\* job has counted
NewThread_resuming(id) ==
    [job |-> id, kind |-> jobs[id].type, pc |-> "start",
     i |-> jobs[id].stats.postsToday + jobs[id].stats.repliesToday,
     queue |-> <<>>, tmp |-> <<>>, cnt |-> 0]

\* lines 371-374: the thread start_job creates
NewThread(id) ==
    [job |-> id, kind |-> jobs[id].type, pc |-> "start", i |-> 0,
     queue |-> <<>>, tmp |-> <<>>, cnt |-> 0]

\* faulty variant of lines 360-365: the test for a running job is missing
start_job_noop_absent(id) == id \notin DOMAIN jobs

\* lines 360-365: the calls that return before anything is written
start_job_noop(id) ==
    IF id \in DOMAIN jobs THEN jobs[id].status = "running" ELSE TRUE

\* lines 358-383
start_job(id) ==
    /\ main.pc = "idle"
    /\ IF start_job_noop(id)
       THEN UNCHANGED <<jobs, running_threads, threads, obs>>
       ELSE /\ jobs' = [jobs EXCEPT ![id].status = "running",
                                    ![id].lastRun = clock]
            /\ IF jobs[id].type \in {"posting", "replying"}
               THEN /\ Len(threads) < MaxThreads
                    /\ threads' = Append(threads, NewThread(id))
                    /\ running_threads' =
                          [x \in DOMAIN running_threads \cup {id} |->
                              IF x = id THEN Len(threads) + 1
                              ELSE running_threads[x]]
                    /\ obs' = Append(obs, NewObs)
               ELSE UNCHANGED <<running_threads, threads, obs>>
    /\ UNCHANGED <<recent_posts_storage, main, TWITTER_POSTER_AVAILABLE,
                   clock, direct>>

\* faulty variant of lines 387-388: an unknown id is reported as stopped
stop_job_returns_any(id) == TRUE

\* lines 385-397: what stop_job returns
stop_job_returns(id) == id \in DOMAIN jobs

\* lines 385-397
stop_job(id) ==
    /\ main.pc = "idle"
    /\ IF id \notin DOMAIN jobs
       THEN UNCHANGED <<jobs, obs>>
       ELSE /\ jobs' = [jobs EXCEPT ![id].status = "stopped"]
            /\ obs' = StopSeen(id)
    /\ UNCHANGED <<running_threads, threads, recent_posts_storage, main,
                   TWITTER_POSTER_AVAILABLE, clock, direct>>

\* lines 399-406: what pause_job returns
pause_job_returns(id) == id \in DOMAIN jobs

\* lines 399-406
pause_job(id) ==
    /\ main.pc = "idle"
    /\ IF id \notin DOMAIN jobs
       THEN UNCHANGED jobs
       ELSE jobs' = [jobs EXCEPT ![id].status = "paused"]
    /\ UNCHANGED <<running_threads, threads, recent_posts_storage, main,
                   TWITTER_POSTER_AVAILABLE, clock, direct, obs>>

\* lines 408-415: what rename_job returns
rename_job_returns(id) == id \in DOMAIN jobs

\* faulty variant of line 413: the rename also empties the queue
Renamed_and_emptied(job, new_name) ==
    [job EXCEPT !.name = new_name, !.approved_content = <<>>]

\* line 413: self.jobs[job_id]["name"] = new_name
Renamed(job, new_name) == [job EXCEPT !.name = new_name]

\* lines 408-415
rename_job(id, new_name) ==
    /\ main.pc = "idle"
    /\ IF id \notin DOMAIN jobs
       THEN UNCHANGED jobs
       ELSE jobs' = [jobs EXCEPT ![id] = Renamed(@, new_name)]
    /\ UNCHANGED <<running_threads, threads, recent_posts_storage, main,
                   TWITTER_POSTER_AVAILABLE, clock, direct, obs>>

NameInputs == {"", "Renamed"}
    \* request.get("name", "")

\* lines 685-721: what the rename endpoint answers
rename_bot_job_returns(id, new_name) ==
    IF new_name = "" THEN FALSE ELSE rename_job_returns(id)

\* lines 685-721: an empty name is refused before the store is asked
rename_bot_job(id, new_name) ==
    IF new_name = ""
    THEN main.pc = "idle" /\ UNCHANGED vars
    ELSE rename_job(id, new_name)

(* ------------------------------ the runner ------------------------------ *)
\* _run_posting_job (lines 425-498) and _run_replying_job (lines 500-556).
\* threads[t].pc is the runner's position:
\*   "start"    spawned, nothing executed yet
\*   "check"    at the status test that opens iteration i (439, 509)
\*   "posting"  inside post_original_tweet / post_reply_tweet
\*   "append"   simulated post: about to call add_to_recent_posts
\*   "chk", "slice", "assign"   inside add_to_recent_posts, at line 296,
\*              at the right-hand side of line 297, at its assignment
\*   "stat", "statw"            before the read, before the write, of "+= 1"
\*   "sleep"    in time.sleep(65)
\*   "finish"   past the loop, about to write status = "stopped"
\*   "exit"     returned
SetThread(t, rec) == [threads EXCEPT ![t] = rec]

Status(t) == jobs[threads[t].job].status

\* faulty variant of lines 439 / 509: only "stopped" ends the loop
Halted_by_stop(t) == Status(t) = "stopped"

\* lines 439 / 509: if self.jobs[job_id]["status"] != "running": break
Halted(t) == Status(t) # "running"

\* faulty variant of the for statement: one turn too many
LoopPc_inclusive(i, queue) == IF i <= Len(queue) THEN "check" ELSE "finish"

\* the for statement: the next iteration, or the code after the loop
LoopPc(i, queue) == IF i < Len(queue) THEN "check" ELSE "finish"

\* lines 489-491 / 547-549, then the next turn of the loop
AfterItem(th) ==
    IF th.i < Len(th.queue) - 1
    THEN [th EXCEPT !.pc = "sleep"]
    ELSE [th EXCEPT !.i = th.i + 1, !.pc = LoopPc(th.i + 1, th.queue)]

\* faulty variant of the except clause: the fault ends the loop
AfterFault_aborts(th) == [th EXCEPT !.pc = "finish"]

\* the except clause (493-494, 551-552): on to the next iteration, no sleep
AfterFault(th) ==
    [th EXCEPT !.i = th.i + 1, !.pc = LoopPc(th.i + 1, th.queue)]

\* lines 496-498 / 554-556 and 434-435: the runner returns
Exited(th) == [th EXCEPT !.pc = "exit"]

\* lines 427-435 / 502-505
run_begin(t) ==
    LET th == threads[t]
        q == jobs[th.job].approved_content IN
    /\ t \in DOMAIN threads
    /\ th.pc = "start"
    /\ IF th.kind = "posting" /\ Len(q) = 0
       THEN /\ jobs' = [jobs EXCEPT ![th.job].status = "stopped"]
            /\ threads' = SetThread(t, Exited([th EXCEPT !.queue = q]))
       ELSE /\ threads' = SetThread(t, [th EXCEPT !.queue = q,
                                                  !.pc = LoopPc(0, q)])
            /\ UNCHANGED jobs
    /\ UNCHANGED <<running_threads, recent_posts_storage, main,
                   TWITTER_POSTER_AVAILABLE, clock, direct, obs>>

\* lines 439-452 / 509-520: the status test and the start of the iteration
run_check(t) ==
    LET th == threads[t] IN
    /\ t \in DOMAIN threads
    /\ th.pc = "check"
    /\ IF Halted(t)
       THEN /\ threads' = SetThread(t, [th EXCEPT !.pc = "finish"])
            /\ UNCHANGED obs
       ELSE IF TWITTER_POSTER_AVAILABLE
       THEN /\ threads' = SetThread(t, [th EXCEPT !.pc = "posting"])
            /\ obs' = CallBegins(t)
       ELSE IF th.kind = "posting"
       THEN /\ threads' = SetThread(t, [th EXCEPT !.pc = "append"])
            /\ UNCHANGED obs
       ELSE \* post_reply_tweet is None (line 89) or unbound: the call raises
            /\ threads' = SetThread(t, AfterFault(th))
            /\ UNCHANGED obs
    /\ UNCHANGED <<jobs, running_threads, recent_posts_storage, main,
                   TWITTER_POSTER_AVAILABLE, clock, direct>>

Outcomes == {"ok", "fail", "raise"}
    \* the Social Poster reports success, reports failure, or raises

\* the post_data the runner hands to add_to_recent_posts (455-462, 471-478,
\* 524-536)
RunnerPost(th) ==
    LET item == th.queue[th.i + 1] IN
    IF th.kind = "posting"
    THEN make_post(IF TWITTER_POSTER_AVAILABLE THEN "real" ELSE "sim",
                   item.content, "post", <<>>)
    ELSE make_post("real", item.content, "reply", <<item.tweetId>>)

\* lines 467-482 / 517-544: the Social Poster call returns; on success the
\* runner goes on to line 293 of add_to_recent_posts
run_post_returns(t, outcome) ==
    LET th == threads[t] IN
    /\ t \in DOMAIN threads
    /\ th.pc = "posting"
    /\ IF outcome = "ok"
       THEN /\ recent_posts_storage' =
                  list_insert(recent_posts_storage, RunnerPost(th))
            /\ threads' = SetThread(t, [th EXCEPT !.pc = "chk"])
            /\ obs' = [obs EXCEPT ![t].succ = @ + 1]
       ELSE /\ threads' = SetThread(t,
                  IF outcome = "raise" THEN AfterFault(th)
                  ELSE IF th.kind = "posting" THEN [th EXCEPT !.pc = "stat"]
                  ELSE AfterItem(th))
            /\ UNCHANGED <<recent_posts_storage, obs>>
    /\ UNCHANGED <<jobs, running_threads, main, TWITTER_POSTER_AVAILABLE,
                   clock, direct>>

\* lines 455-462 with line 293: the simulated post is logged
run_insert(t) ==
    LET th == threads[t] IN
    /\ t \in DOMAIN threads
    /\ th.pc = "append"
    /\ recent_posts_storage' = list_insert(recent_posts_storage, RunnerPost(th))
    /\ threads' = SetThread(t, [th EXCEPT !.pc = "chk"])
    /\ UNCHANGED <<jobs, running_threads, main, TWITTER_POSTER_AVAILABLE,
                   clock, direct, obs>>

\* line 296
run_len_check(t) ==
    LET th == threads[t] IN
    /\ t \in DOMAIN threads
    /\ th.pc = "chk"
    /\ threads' = SetThread(t, [th EXCEPT !.pc =
                      IF over_cap(recent_posts_storage) THEN "slice" ELSE "stat"])
    /\ UNCHANGED <<jobs, running_threads, recent_posts_storage, main,
                   TWITTER_POSTER_AVAILABLE, clock, direct, obs>>

\* line 297: the slice is built from the list the global names now
run_slice(t) ==
    LET th == threads[t] IN
    /\ t \in DOMAIN threads
    /\ th.pc = "slice"
    /\ threads' = SetThread(t, [th EXCEPT !.tmp = list_slice(recent_posts_storage),
                                          !.pc = "assign"])
    /\ UNCHANGED <<jobs, running_threads, recent_posts_storage, main,
                   TWITTER_POSTER_AVAILABLE, clock, direct, obs>>

\* line 297: the global is bound to the slice
run_assign(t) ==
    LET th == threads[t] IN
    /\ t \in DOMAIN threads
    /\ th.pc = "assign"
    /\ recent_posts_storage' = th.tmp
    /\ threads' = SetThread(t, [th EXCEPT !.tmp = <<>>, !.pc = "stat"])
    /\ UNCHANGED <<jobs, running_threads, main, TWITTER_POSTER_AVAILABLE,
                   clock, direct, obs>>

\* line 485 / 539: the counter the runner increments
Counter(th) == IF th.kind = "posting" THEN "postsToday" ELSE "repliesToday"

\* lines 485 / 539: the read half of "+= 1"
run_stat_read(t) ==
    LET th == threads[t] IN
    /\ t \in DOMAIN threads
    /\ th.pc = "stat"
    /\ threads' = SetThread(t, [th EXCEPT !.cnt = jobs[th.job].stats[Counter(th)],
                                          !.pc = "statw"])
    /\ UNCHANGED <<jobs, running_threads, recent_posts_storage, main,
                   TWITTER_POSTER_AVAILABLE, clock, direct, obs>>

\* lines 485-491 / 539-549: the write half, lastRun, and the wait decision
run_stat_write(t) ==
    LET th == threads[t] IN
    /\ t \in DOMAIN threads
    /\ th.pc = "statw"
    /\ jobs' = [jobs EXCEPT ![th.job].stats[Counter(th)] = th.cnt + 1,
                            ![th.job].lastRun = clock]
    /\ threads' = SetThread(t, AfterItem([th EXCEPT !.cnt = 0]))
    /\ UNCHANGED <<running_threads, recent_posts_storage, main,
                   TWITTER_POSTER_AVAILABLE, clock, direct, obs>>

\* lines 491 / 549: time.sleep(65) returns
run_wake(t) ==
    LET th == threads[t] IN
    /\ t \in DOMAIN threads
    /\ th.pc = "sleep"
    /\ threads' = SetThread(t, [th EXCEPT !.i = th.i + 1, !.pc = "check"])
    /\ UNCHANGED <<jobs, running_threads, recent_posts_storage, main,
                   TWITTER_POSTER_AVAILABLE, clock, direct, obs>>

\* lines 496-498 / 554-556
run_finish(t) ==
    LET th == threads[t] IN
    /\ t \in DOMAIN threads
    /\ th.pc = "finish"
    /\ jobs' = [jobs EXCEPT ![th.job].status = "stopped"]
    /\ threads' = SetThread(t, Exited(th))
    /\ UNCHANGED <<running_threads, recent_posts_storage, main,
                   TWITTER_POSTER_AVAILABLE, clock, direct, obs>>

(* ------------------------- direct post endpoint ------------------------- *)
DirectContents == {0, 3}
    \* request.get("content", ""): 0 is the empty string

\* faulty variant of line 859: the simulated post is not flagged
post_to_twitter_returns_unflagged(content, outcome) ==
    IF content = 0 THEN [success |-> FALSE, simulated |-> FALSE]
    ELSE IF ~TWITTER_POSTER_AVAILABLE THEN [success |-> TRUE, simulated |-> FALSE]
    ELSE [success |-> outcome = "ok", simulated |-> FALSE]

\* lines 819-910: what the handler answers
post_to_twitter_returns(content, outcome) ==
    IF content = 0 THEN [success |-> FALSE, simulated |-> FALSE]
    ELSE IF ~TWITTER_POSTER_AVAILABLE THEN [success |-> TRUE, simulated |-> TRUE]
    ELSE [success |-> outcome = "ok", simulated |-> FALSE]

\* lines 819-910, up to and including line 293 of add_to_recent_posts
post_to_twitter_endpoint(content, outcome) ==
    /\ main.pc = "idle"
    /\ direct < MaxDirect
    /\ direct' = direct + 1
    /\ IF content # 0 /\ (~TWITTER_POSTER_AVAILABLE \/ outcome = "ok")
       THEN /\ recent_posts_storage' =
                  list_insert(recent_posts_storage,
                      make_post(IF TWITTER_POSTER_AVAILABLE THEN "real" ELSE "sim",
                                content, "post", <<>>))
            /\ main' = [main EXCEPT !.pc = "chk"]
       ELSE UNCHANGED <<recent_posts_storage, main>>
    /\ UNCHANGED <<jobs, running_threads, threads, TWITTER_POSTER_AVAILABLE,
                   clock, obs>>

DirectTargets == {0, 5}
    \* request.get("reply_to_tweet_id", ""): 0 is the empty string

\* lines 1455-1467: the request carries a content and a target
valid_reply(content, target) == content # 0 /\ target # 0

\* lines 1445-1559: what the handler answers
post_reply_with_tracking_returns(content, target, outcome) ==
    IF ~valid_reply(content, target)
    THEN [success |-> FALSE, simulated |-> FALSE]
    ELSE IF ~TWITTER_POSTER_AVAILABLE THEN [success |-> TRUE, simulated |-> TRUE]
    ELSE [success |-> outcome = "ok", simulated |-> FALSE]

\* lines 1445-1559, up to and including line 293 of add_to_recent_posts
post_reply_with_tracking_endpoint(content, target, outcome) ==
    /\ main.pc = "idle"
    /\ direct < MaxDirect
    /\ direct' = direct + 1
    /\ IF /\ valid_reply(content, target)
          /\ (~TWITTER_POSTER_AVAILABLE \/ outcome = "ok")
       THEN /\ recent_posts_storage' =
                  list_insert(recent_posts_storage,
                      make_post(IF TWITTER_POSTER_AVAILABLE THEN "real" ELSE "sim",
                                content, "reply", <<target>>))
            /\ main' = [main EXCEPT !.pc = "chk"]
       ELSE UNCHANGED <<recent_posts_storage, main>>
    /\ UNCHANGED <<jobs, running_threads, threads, TWITTER_POSTER_AVAILABLE,
                   clock, obs>>

(* ------------------------ post_scheduled_content ------------------------ *)
\* lines 987-1090.  The handler runs on the event loop and keeps it to
\* itself until it returns, time.sleep included.  main.frame holds its
\* locals; main.pc is "item" at the top of the loop body for item i,
\* "delay" inside time.sleep(65), "done" at the return statement.
\*   time_bound: the function holds "import time" (line 1048), which makes
\*   time a local name of the whole function, unbound until that line runs
ContentItems ==
    UNION {{s \in [1..n -> 0..n] : \A k \in 1..n : s[k] \in {0, k}} :
              n \in 0..MaxItems}
    \* request.get("content_items", []): each item by its content, 0 being
    \* the empty string

NewFrame(items) ==
    [content_items |-> items, i |-> 0, results |-> <<>>,
     success_count |-> 0, time_bound |-> FALSE]

\* lines 991-1003
post_scheduled_content(items) ==
    /\ main.pc = "idle"
    /\ IF Len(items) = 0
       THEN UNCHANGED main
       ELSE main' = [pc |-> "item", tmp |-> <<>>, frame |-> NewFrame(items)]
    /\ UNCHANGED <<jobs, running_threads, threads, recent_posts_storage,
                   TWITTER_POSTER_AVAILABLE, clock, direct, obs>>

\* one entry of results
Result(ok, content) == [success |-> ok, content |-> content]

\* the for statement: on to the next item, or to the return statement
NextItem(f) ==
    [pc |-> IF f.i + 1 < Len(f.content_items) THEN "item" ELSE "done",
     tmp |-> <<>>,
     frame |-> [f EXCEPT !.i = f.i + 1]]

\* lines 1062-1072: the delay after an item that was posted
AfterPost(f) ==
    IF f.i < Len(f.content_items) - 1
    THEN IF f.time_bound
         THEN [pc |-> "delay", tmp |-> <<>>, frame |-> f]
         ELSE \* time.sleep: UnboundLocalError, caught at line 1066
              NextItem([f EXCEPT !.results =
                  Append(@, Result(FALSE, f.content_items[f.i + 1]))])
    ELSE NextItem(f)

\* lines 1006-1072: the loop body for item i, up to the delay
scheduled_item(outcome) ==
    /\ main.pc = "item"
    /\ LET f == main.frame
           c == f.content_items[f.i + 1] IN
       main' =
         IF c = 0
         THEN NextItem([f EXCEPT !.results = Append(@, Result(FALSE, c))])
         ELSE IF ~TWITTER_POSTER_AVAILABLE
         THEN AfterPost([f EXCEPT !.time_bound = TRUE,
                                  !.success_count = @ + 1,
                                  !.results = Append(@, Result(TRUE, c))])
         ELSE IF outcome = "raise"
         THEN NextItem([f EXCEPT !.results = Append(@, Result(FALSE, c))])
         ELSE AfterPost([f EXCEPT
                  !.success_count = IF outcome = "ok" THEN @ + 1 ELSE @,
                  !.results = Append(@, Result(outcome = "ok", c))])
    /\ UNCHANGED <<jobs, running_threads, threads, recent_posts_storage,
                   TWITTER_POSTER_AVAILABLE, clock, direct, obs>>

\* line 1064: time.sleep(65) returns
scheduled_wake ==
    /\ main.pc = "delay"
    /\ main' = NextItem(main.frame)
    /\ UNCHANGED <<jobs, running_threads, threads, recent_posts_storage,
                   TWITTER_POSTER_AVAILABLE, clock, direct, obs>>

\* lines 1074-1082: what the handler answers
post_scheduled_content_returns(f) ==
    [success |-> TRUE,
     total_processed |-> Len(f.content_items),
     successful_posts |-> f.success_count,
     failed_posts |-> Len(f.content_items) - f.success_count,
     results |-> f.results]

\* lines 1074-1082
scheduled_return ==
    /\ main.pc = "done"
    /\ main' = [pc |-> "idle", tmp |-> <<>>]
    /\ UNCHANGED <<jobs, running_threads, threads, recent_posts_storage,
                   TWITTER_POSTER_AVAILABLE, clock, direct, obs>>

\* line 296, on the event-loop thread
main_len_check ==
    /\ main.pc = "chk"
    /\ main' = [main EXCEPT !.pc =
                   IF over_cap(recent_posts_storage) THEN "slice" ELSE "idle"]
    /\ UNCHANGED <<jobs, running_threads, threads, recent_posts_storage,
                   TWITTER_POSTER_AVAILABLE, clock, direct, obs>>

\* line 297, right-hand side
main_slice ==
    /\ main.pc = "slice"
    /\ main' = [main EXCEPT !.tmp = list_slice(recent_posts_storage),
                            !.pc = "assign"]
    /\ UNCHANGED <<jobs, running_threads, threads, recent_posts_storage,
                   TWITTER_POSTER_AVAILABLE, clock, direct, obs>>

\* line 297, the assignment
main_assign ==
    /\ main.pc = "assign"
    /\ recent_posts_storage' = main.tmp
    /\ main' = [main EXCEPT !.tmp = <<>>, !.pc = "idle"]
    /\ UNCHANGED <<jobs, running_threads, threads, TWITTER_POSTER_AVAILABLE,
                   clock, direct, obs>>

\* lines 302-313: what a reader is handed; the handler runs on the event
\* loop, so only while no other handler does
get_recent_posts ==
    [success |-> TRUE, posts |-> recent_posts_storage,
     count |-> Len(recent_posts_storage)]

(* ------------------------------- Next ----------------------------------- *)
ThreadIds == 1..MaxThreads

\* one step of some runner thread
Runner ==
    \/ \E t \in ThreadIds : run_begin(t)
    \/ \E t \in ThreadIds : run_check(t)
    \/ \E t \in ThreadIds, o \in Outcomes : run_post_returns(t, o)
    \/ \E t \in ThreadIds : run_insert(t)
    \/ \E t \in ThreadIds : run_len_check(t)
    \/ \E t \in ThreadIds : run_slice(t)
    \/ \E t \in ThreadIds : run_assign(t)
    \/ \E t \in ThreadIds : run_stat_read(t)
    \/ \E t \in ThreadIds : run_stat_write(t)
    \/ \E t \in ThreadIds : run_wake(t)
    \/ \E t \in ThreadIds : run_finish(t)

\* The job scheduler: every job request against every runner step.  Each
\* create endpoint is called with its default type or with a type that is
\* neither "posting" nor "replying".
Next ==
    \/ \E ty \in {"posting", "other"}, q \in QueueInputs : new_posting_job(ty, q)
    \/ \E ty \in {"replying", "other"}, q \in QueueInputs : new_reply_job(ty, q)
    \/ \E id \in AllIds : start_job(id)
    \/ \E id \in AllIds : stop_job(id)
    \/ \E id \in AllIds : pause_job(id)
    \/ Runner

Spec == Init /\ [][Next]_vars

\* One run: a job is created and started once; nothing stops or pauses it,
\* nobody else appends to the log, and the Social Poster accepts every post.
StartOnce(id) ==
    /\ IF Len(threads) = 0 /\ id \in DOMAIN jobs
       THEN jobs[id].lastRun = None \/ jobs[id].status = "running"
       ELSE start_job_noop(id)
    /\ start_job(id)

\* jobs are created before the run begins
CreateFirst(prefix, type, queue) ==
    /\ Len(threads) = 0
    /\ IF prefix = "posting_job" THEN new_posting_job(type, queue)
       ELSE new_reply_job(type, queue)

NextRun ==
    \/ \E ty \in JobTypes, q \in QueueInputs \cup {LongQueue} :
          CreateFirst("posting_job", ty, q)
    \/ \E ty \in JobTypes, q \in QueueInputs \cup {LongQueue} :
          CreateFirst("reply_job", ty, q)
    \/ \E id \in AllIds : StartOnce(id)
    \/ \E t \in ThreadIds : run_begin(t)
    \/ \E t \in ThreadIds : run_check(t)
    \/ \E t \in ThreadIds : run_post_returns(t, "ok")
    \/ \E t \in ThreadIds : run_insert(t)
    \/ \E t \in ThreadIds : run_len_check(t)
    \/ \E t \in ThreadIds : run_slice(t)
    \/ \E t \in ThreadIds : run_assign(t)
    \/ \E t \in ThreadIds : run_stat_read(t)
    \/ \E t \in ThreadIds : run_stat_write(t)
    \/ \E t \in ThreadIds : run_wake(t)
    \/ \E t \in ThreadIds : run_finish(t)

SpecRun == Init /\ [][NextRun]_vars

\* The job store: every request of the store, with ids that repeat while
\* the clock stands still, around the run of one runner.
MaxStore == MaxJobs + 1

Room(prefix) ==
    <<prefix, clock>> \in DOMAIN jobs \/ Cardinality(DOMAIN jobs) < MaxStore

put_posting_job(type, queue) ==
    Room("posting_job") /\ create_posting_job(type, queue)

put_reply_job(type, queue) ==
    Room("reply_job") /\ create_reply_job(type, queue)

NextStore ==
    \/ \E ty \in {"posting", "other"}, q \in {Queue(0), Queue(MaxQueue)} :
          put_posting_job(ty, q)
    \/ \E ty \in {"replying", "other"}, q \in {Queue(0), Queue(MaxQueue)} :
          put_reply_job(ty, q)
    \/ \E id \in AllIds : StartOnce(id)
    \/ \E id \in AllIds : stop_job(id)
    \/ \E id \in AllIds : pause_job(id)
    \/ \E id \in AllIds, n \in NameInputs : rename_bot_job(id, n)
    \/ Tick

InitStore == InitWith({0})

SpecStore == InitStore /\ [][NextStore]_vars

\* One job, started once, with every request that can reach it.  A runner
\* is a thread of its own: if the Social Poster and the delay return, the
\* thread goes on until it returns.
first_posting_job(type, queue) ==
    DOMAIN jobs = {} /\ create_posting_job(type, queue)

first_reply_job(type, queue) ==
    DOMAIN jobs = {} /\ create_reply_job(type, queue)

NextOne ==
    \/ \E ty \in JobTypes, q \in QueueInputs : first_posting_job(ty, q)
    \/ \E ty \in JobTypes, q \in QueueInputs : first_reply_job(ty, q)
    \/ \E id \in AllIds : StartOnce(id)
    \/ \E id \in AllIds : stop_job(id)
    \/ \E id \in AllIds : pause_job(id)
    \/ \E id \in AllIds, n \in NameInputs : rename_bot_job(id, n)
    \/ Runner

SpecFair == Init /\ [][NextOne]_vars /\ WF_vars(Runner)

\* One id: its job is created again within the second of the first create,
\* while the runner of its one start works.
repeat_posting_job(type, queue) ==
    /\ DOMAIN jobs \subseteq {<<"posting_job", clock>>}
    /\ create_posting_job(type, queue)

repeat_reply_job(type, queue) ==
    /\ DOMAIN jobs \subseteq {<<"reply_job", clock>>}
    /\ create_reply_job(type, queue)

NextRepeat ==
    \/ \E ty \in {"posting", "replying"}, q \in QueueInputs :
          repeat_posting_job(ty, q)
    \/ \E ty \in {"posting", "replying"}, q \in QueueInputs :
          repeat_reply_job(ty, q)
    \/ \E id \in AllIds : StartOnce(id)
    \/ Runner

InitRepeat == InitWith({LogCap - 1})

SpecRepeat == InitRepeat /\ [][NextRepeat]_vars

\* Restarts: a job is started again after a stop, a pause or a finished run,
\* and nothing stops or pauses it once its last runner is spawned.
stop_early(id) == Len(threads) < MaxThreads /\ stop_job(id)

pause_early(id) == Len(threads) < MaxThreads /\ pause_job(id)

NextRestart ==
    \/ \E ty \in {"posting", "other"}, q \in QueueInputs : new_posting_job(ty, q)
    \/ \E ty \in {"replying", "other"}, q \in QueueInputs : new_reply_job(ty, q)
    \/ \E id \in AllIds : start_job(id)
    \/ \E id \in AllIds : stop_early(id)
    \/ \E id \in AllIds : pause_early(id)
    \/ Runner

SpecRestart == Init /\ [][NextRestart]_vars

\* The scheduled batch: post-scheduled-content requests, one after another.
NextScheduled ==
    \/ \E items \in ContentItems : post_scheduled_content(items)
    \/ \E o \in Outcomes : scheduled_item(o)
    \/ scheduled_wake
    \/ scheduled_return

SpecScheduled == InitStore /\ [][NextScheduled]_vars

\* The log: direct posts on the event loop against the appends of runners.
NextLog ==
    \/ \E q \in QueueInputs \cup {BlankQueue} : new_posting_job("posting", q)
    \/ new_reply_job("replying", NoTargetQueue)
    \/ \E id \in AllIds : start_job(id)
    \/ \E c \in DirectContents, o \in Outcomes : post_to_twitter_endpoint(c, o)
    \/ \E c \in DirectContents, r \in DirectTargets, o \in Outcomes :
          post_reply_with_tracking_endpoint(c, r, o)
    \/ main_len_check
    \/ main_slice
    \/ main_assign
    \/ Runner

SpecLog == InitLog /\ [][NextLog]_vars


(* ====================== properties of the scheduler ===================== *)
\* A step of runner t: something of thread t changes.
Moves(t) == t \in DOMAIN threads /\ threads'[t] # threads[t]

\* Runner t begins a Social Poster call in this step.
Submits(t) ==
    /\ t \in DOMAIN threads
    /\ threads[t].pc # "posting"
    /\ threads'[t].pc = "posting"

\* C1: in every reachable state a job has at most one live background runner.
C1_AtMostOneLiveRunner ==
    \A id \in DOMAIN jobs : Cardinality(LiveRunners(id)) <= 1

\* C2: for one job, no two Social Poster calls overlap in time, and within
\* one run the items are submitted in strictly increasing queue index: a call
\* is begun only for the index the status test just admitted, and a runner
\* comes back to the status test only with the next index.
PosterCallsOverlap ==
    \E t, u \in DOMAIN threads :
        /\ t # u
        /\ threads[t].job = threads[u].job
        /\ threads[t].pc = "posting"
        /\ threads[u].pc = "posting"

IncreasingIndex(t) ==
    /\ Submits(t) => threads[t].pc = "check" /\ threads'[t].i = threads[t].i
    /\ (/\ threads'[t].pc = "check"
        /\ threads[t].pc # "start"
        /\ threads'[t] # threads[t]) => threads'[t].i = threads[t].i + 1
    /\ threads'[t].i >= threads[t].i

C2_SerialInOrder ==
    [][/\ ~PosterCallsOverlap'
       /\ \A t \in DOMAIN threads : IncreasingIndex(t)]_vars

\* C3: stop(id) leaves the status "stopped", and the runner that was live at
\* that moment begins at most one more Social Poster call afterwards,
\* whatever requests follow (a later start included).
C3_StopBoundsTheRunner ==
    [][/\ \A id \in DOMAIN jobs :
             stop_job(id) => jobs'[id].status = "stopped"
       /\ \A t \in DOMAIN obs' : obs'[t].afterStop <= 2]_vars

\* C4: start(id) on a job whose status is "running" returns success and
\* changes nothing: the status stays "running", no runner is created and no
\* field of the job (lastRun included) changes.
C4_StartRunningIsIdempotent ==
    [][\A id \in DOMAIN jobs :
          (jobs[id].status = "running" /\ start_job(id)) =>
              /\ start_job_returns(id)
              /\ jobs' = jobs
              /\ threads' = threads
              /\ running_threads' = running_threads]_vars

\* a running job with its runner live, the event loop free to take a start
C4_Witness ==
    \E id \in DOMAIN jobs :
        /\ jobs[id].status = "running"
        /\ jobs[id].lastRun # None
        /\ LiveRunners(id) # {}
        /\ main.pc = "idle"
        /\ ENABLED start_job(id)


\* all runners ever started for the job of runner t
RunnersOf(t) == {u \in DOMAIN threads : threads[u].job = threads[t].job}

\* runner t has returned after going through its whole queue
Completed(t) ==
    /\ threads[t].pc = "exit"
    /\ threads[t].i = Len(threads[t].queue)

\* C6: when a posting job has run to completion without being stopped or
\* paused, postsToday equals the number of queue items for which the Social
\* Poster reported success.
C6_PostsTodayCountsSuccesses ==
    \A t \in DOMAIN threads :
        (/\ threads[t].kind = "posting"
         /\ TWITTER_POSTER_AVAILABLE
         /\ Completed(t)
         /\ RunnersOf(t) = {t}
         /\ obs[t].afterStop = 0) =>
            jobs[threads[t].job].stats.postsToday = obs[t].succ

\* The Social Poster call of runner t returns a failure or raises.
FailedReturn(t) == run_post_returns(t, "fail") \/ run_post_returns(t, "raise")

\* C7: when the Social Poster reports failure or raises for item i, the
\* runner does not log or retry item i, does not leave the loop because of
\* it, and submits item i+1 if the status is still "running".
C7_FailureDoesNotEndTheRun ==
    [][\A t \in DOMAIN threads :
          LET th == threads[t]
              nx == threads'[t] IN
          /\ FailedReturn(t) =>
                /\ recent_posts_storage' = recent_posts_storage
                /\ nx.pc \in {"stat", "sleep", "check", "finish"}
          /\ (Moves(t) /\ nx.pc = "finish") =>
                \/ th.pc = "check" /\ Status(t) # "running"
                \/ nx.i = Len(th.queue)
          /\ (Moves(t) /\ nx.pc = "exit") =>
                th.pc = "finish" \/ Len(nx.queue) = 0
          /\ (Moves(t) /\ nx.pc = "check" /\ th.pc # "start") =>
                nx.i = th.i + 1
          /\ Submits(t) => th.pc = "check" /\ nx.i = th.i
          /\ (Moves(t) /\ th.pc = "check" /\ Status(t) = "running"
                /\ TWITTER_POSTER_AVAILABLE) => nx.pc = "posting"]_vars

\* item 0 was not posted, and the runner is inside the call for item 1
C7_Witness ==
    \E t \in DOMAIN threads :
        /\ TWITTER_POSTER_AVAILABLE
        /\ threads[t].i = 1
        /\ threads[t].pc = "posting"
        /\ obs[t].succ = 0
        /\ RunnersOf(t) = {t}
        /\ recent_posts_storage = <<>>

\* C8: starting a job of either kind whose queue is empty sets the status to
\* "running"; its runner then sets it to "stopped" without a Social Poster
\* call, a log append, a stats change or a delay.
C8_EmptyQueueRun ==
    [][/\ \A id \in DOMAIN jobs :
             (/\ start_job(id)
              /\ Len(jobs[id].approved_content) = 0
              /\ jobs[id].status # "running"
              /\ jobs[id].type \in {"posting", "replying"}) =>
                 /\ jobs'[id].status = "running"
                 /\ Len(threads') = Len(threads) + 1
                 /\ threads'[Len(threads')].job = id
       /\ \A t \in DOMAIN threads :
             LET id == threads[t].job IN
             (Moves(t) /\ Len(jobs[id].approved_content) = 0) =>
                 /\ threads'[t].pc \in {"finish", "exit"}
                 /\ threads'[t].pc = "exit" => jobs'[id].status = "stopped"
                 /\ jobs'[id].stats = jobs[id].stats
                 /\ jobs'[id].lastRun = jobs[id].lastRun
                 /\ recent_posts_storage' = recent_posts_storage]_vars

\* a replying job with an empty queue was started and its runner has returned
C8_Witness ==
    \E t \in DOMAIN threads :
        /\ threads[t].kind = "replying"
        /\ jobs[threads[t].job].approved_content = <<>>
        /\ threads[t].pc = "exit"
        /\ jobs[threads[t].job].status = "stopped"
        /\ jobs[threads[t].job].lastRun # None
        /\ jobs[threads[t].job].stats.repliesToday = 0


(* ========================= properties of the log ======================== *)
\* what the properties read of a log: each entry's content and tag
LogView(log) == [k \in 1..Len(log) |-> <<log[k].content, log[k].type>>]

\* the entries a run of runner t leaves when every item is posted, newest
\* (the last queue item) first
NewEntries(t) ==
    LET q == threads[t].queue
        tag == IF threads[t].kind = "posting" THEN "post" ELSE "reply" IN
    [k \in 1..Len(q) |-> <<q[Len(q) + 1 - k].content, tag>>]

\* every item of runner t's queue was posted: accepted by the Social Poster,
\* or simulated by a posting job when there is no Social Poster
AllPosted(t) ==
    IF TWITTER_POSTER_AVAILABLE
    THEN obs[t].succ = Len(threads[t].queue)
    ELSE threads[t].kind = "posting"

\* the logs a run can start from
StartLogs == {Prefill(n) : n \in {0, LogCap - 1}}

\* C5 as stated: a job with N items, started once, every post succeeding,
\* never stopped or paused, nobody else appending: after the run the log
\* holds exactly N new entries, front to back the reversed queue, tagged by
\* the job's kind, in front of what it held before.
C5_ExactlyNNewEntries ==
    \A t \in DOMAIN threads :
        (Completed(t) /\ AllPosted(t)) =>
            LET n == Len(threads[t].queue)
                log == recent_posts_storage IN
            /\ Len(log) >= n
            /\ SubSeq(LogView(log), 1, n) = NewEntries(t)
            /\ \E old \in StartLogs :
                  SubSeq(log, n + 1, Len(log)) = Take(old, Len(log) - n)

\* C5, amended: after such a run the log is the N new entries (front to back
\* the reversed queue, tagged by kind) in front of the earlier ones, cut to
\* its 50 most recent entries; so it holds exactly N new entries when
\* N <= 50, and only the last 50 queue items when N > 50.
C5_NewEntriesUpToCap ==
    \A t \in DOMAIN threads :
        (Completed(t) /\ AllPosted(t)) =>
            \E old \in StartLogs :
                LogView(recent_posts_storage) =
                    Take(NewEntries(t) \o LogView(old), LogCap)

\* a replying job's two replies were added to a log that held 49 entries
C5_Witness ==
    \E t \in DOMAIN threads :
        /\ Completed(t)
        /\ AllPosted(t)
        /\ threads[t].kind = "replying"
        /\ Len(threads[t].queue) = 2
        /\ Len(recent_posts_storage) = LogCap
        /\ recent_posts_storage[3] = Prefill(1)[1]

\* C9: the log holds at most 50 entries in every reachable state, the
\* states between an append's insert and its truncation included: whenever
\* a read can be served (get_recent_posts, the event loop being idle), it
\* returns at most 50 entries.
C9_NeverAboveCap ==
    main.pc = "idle" =>
        /\ Len(get_recent_posts.posts) <= LogCap
        /\ get_recent_posts.count <= LogCap

\* runner t is inside add_to_recent_posts, past the insert
Appending(t) == threads[t].pc \in {"chk", "slice", "assign"}

Absent == AllIds \ DOMAIN jobs

\* C11: rename, start, stop and pause on an id that is not in the store each
\* report not-found, and change nothing: no job record is created or
\* changed, no runner is spawned and the log stays as it is.
C11_UnknownIdIsRefused ==
    [][\A id \in Absent :
          /\ ~start_job_returns(id)
          /\ ~stop_job_returns(id)
          /\ ~pause_job_returns(id)
          /\ \A n \in NameInputs : ~rename_bot_job_returns(id, n)
          /\ (\/ start_job(id)
              \/ stop_job(id)
              \/ pause_job(id)
              \/ \E n \in NameInputs : rename_bot_job(id, n)) =>
                 UNCHANGED <<jobs, threads, running_threads,
                             recent_posts_storage>>]_vars

\* the store holds a started job, and requests for an unknown id can come
C11_Witness ==
    /\ \E id \in DOMAIN jobs : jobs[id].status = "running"
    /\ \E id \in Absent :
          /\ ENABLED start_job(id)
          /\ ENABLED stop_job(id)
          /\ ENABLED pause_job(id)
          /\ ENABLED rename_bot_job(id, "Renamed")
          /\ ~rename_bot_job_returns(id, "Renamed")

\* the create requests that carry type ty and queue q, and the id they use
Creates(prefix, ty, q) ==
    IF prefix = "posting_job" THEN create_posting_job(ty, q)
    ELSE create_reply_job(ty, q)

\* C18: create(id, spec) leaves the store holding a record for id with
\* status stopped, postsToday = 0, repliesToday = 0, lastRun unset and
\* exactly the supplied items in their order; it spawns no runner and
\* changes no other job's record.
C18_CreateStoresTheRecord ==
    [][\A prefix \in Prefixes, ty \in JobTypes, q \in QueueInputs :
          Creates(prefix, ty, q) =>
              LET id == <<prefix, clock>> IN
              /\ DOMAIN jobs' = DOMAIN jobs \cup {id}
              /\ jobs'[id].id = id
              /\ jobs'[id].status = "stopped"
              /\ jobs'[id].stats.postsToday = 0
              /\ jobs'[id].stats.repliesToday = 0
              /\ jobs'[id].lastRun = None
              /\ jobs'[id].approved_content = q
              /\ threads' = threads
              /\ running_threads' = running_threads
              /\ \A x \in DOMAIN jobs \ {id} : jobs'[x] = jobs[x]]_vars

\* a job was created next to one that had been started and renamed before
C18_Witness ==
    \E a, b \in DOMAIN jobs :
        /\ a # b
        /\ jobs[a].status = "running"
        /\ jobs[a].name = "Renamed"
        /\ jobs[a].createdAt = 0
        /\ jobs[b].createdAt = 1
        /\ jobs[b].status = "stopped"
        /\ jobs[b].lastRun = None
        /\ jobs[b].approved_content = Queue(MaxQueue)

\* C19: a job created through create-posting-job or create-reply-job gets an
\* id that no job of the store has, so that a create never replaces a
\* record or resets its status and stats, also when two jobs of one kind
\* are created within the same second of the clock.
C19_CreatedIdIsNew ==
    [][\A prefix \in Prefixes, ty \in JobTypes, q \in QueueInputs :
          Creates(prefix, ty, q) =>
              /\ <<prefix, clock>> \notin DOMAIN jobs
              /\ \A x \in DOMAIN jobs : jobs'[x] = jobs[x]]_vars


\* C12: a job whose status becomes "running" has status "stopped" again
\* later on, if no further start is issued, the Social Poster and the delay
\* always return and the runner threads are scheduled; for every type a job
\* can be created with.
C12_RunningLeadsToStopped ==
    \A id \in AllIds :
        (id \in DOMAIN jobs /\ jobs[id].status = "running")
            ~> (id \in DOMAIN jobs /\ jobs[id].status = "stopped")

\* C20: once a job is created, no start, stop, pause or rename request and
\* no runner step changes its id, its type or its queue (contents, order,
\* length); a rename changes the name and nothing else.
C20_IdKindQueueAreFixed ==
    [][\A id \in DOMAIN jobs :
          /\ id \in DOMAIN jobs'
          /\ jobs'[id].id = jobs[id].id
          /\ jobs'[id].type = jobs[id].type
          /\ jobs'[id].approved_content = jobs[id].approved_content
          /\ \A n \in NameInputs :
                rename_bot_job(id, n) =>
                    /\ n # "" => jobs'[id].name = n
                    /\ jobs'[id] = [jobs[id] EXCEPT !.name = jobs'[id].name]
                    /\ \A x \in DOMAIN jobs \ {id} : jobs'[x] = jobs[x]]_vars

\* a renamed job has run through its queue and was paused afterwards
C20_Witness ==
    \E t \in DOMAIN threads :
        LET job == jobs[threads[t].job] IN
        /\ Completed(t)
        /\ job.name = "Renamed"
        /\ job.status = "paused"
        /\ job.stats.postsToday = MaxQueue
        /\ job.approved_content = Queue(MaxQueue)


(* =================== more properties of the scheduler =================== *)
\* C13: a job's status is always one of stopped, running, paused; it is
\* stopped right after creation, becomes running only through start, and
\* becomes paused only from running (a pause request on a stopped job does
\* not make it paused).
C13_StatusMachine ==
    [][\A id \in DOMAIN jobs' :
          /\ jobs'[id].status \in {"stopped", "running", "paused"}
          /\ IF id \notin DOMAIN jobs
             THEN jobs'[id].status = "stopped"
             ELSE /\ (/\ jobs'[id].status = "running"
                      /\ jobs[id].status # "running") => start_job(id)
                  /\ (/\ jobs'[id].status = "paused"
                      /\ jobs[id].status # "paused") =>
                         jobs[id].status = "running"]_vars

\* C14: for leaving the loop, pause is the same as stop.  A pause request
\* does to the job what a stop request does, but for the value written;
\* the runner that next tests the status leaves the loop on either value
\* without submitting a further item or touching the log, no runner begins
\* a Social Poster call while the status is not "running", and the runner
\* ends by writing "stopped".
C14_PauseEndsTheLoopLikeStop ==
    [][/\ \A id \in DOMAIN jobs :
             /\ pause_job(id) =>
                   /\ jobs' = [jobs EXCEPT ![id].status = "paused"]
                   /\ threads' = threads
                   /\ recent_posts_storage' = recent_posts_storage
             /\ stop_job(id) =>
                   /\ jobs' = [jobs EXCEPT ![id].status = "stopped"]
                   /\ threads' = threads
                   /\ recent_posts_storage' = recent_posts_storage
       /\ \A t \in DOMAIN threads :
             LET th == threads[t]
                 nx == threads'[t] IN
             /\ (/\ Moves(t)
                 /\ th.pc = "check"
                 /\ Status(t) \in {"paused", "stopped"}) =>
                    /\ nx = [th EXCEPT !.pc = "finish"]
                    /\ recent_posts_storage' = recent_posts_storage
                    /\ jobs' = jobs
             /\ Submits(t) => Status(t) = "running"
             /\ (Moves(t) /\ th.pc = "finish") =>
                    /\ nx.pc = "exit"
                    /\ jobs'[th.job].status = "stopped"]_vars

\* a runner that was paused, never stopped, after its first item has left
\* the loop with the second item unsubmitted
C14_Witness ==
    \E t \in DOMAIN threads :
        /\ threads[t].pc = "finish"
        /\ threads[t].i = 1
        /\ Len(threads[t].queue) = 2
        /\ Status(t) = "paused"
        /\ obs[t].afterStop = 0
        /\ obs[t].succ = 1
        /\ RunnersOf(t) = {t}

\* C17: between two consecutive Social Poster calls of one runner lies one
\* full delay, also when the earlier call reported failure or raised: the
\* runner comes to the next item only out of the delay; and no delay
\* follows the last item of the queue.
C17_DelayBetweenCalls ==
    [][\A t \in DOMAIN threads :
          LET th == threads[t]
              nx == threads'[t] IN
          /\ (/\ TWITTER_POSTER_AVAILABLE
              /\ Moves(t)
              /\ nx.pc = "check"
              /\ th.pc # "start") => th.pc = "sleep"
          /\ (Moves(t) /\ nx.pc = "sleep") => th.i < Len(th.queue) - 1]_vars


(* ===================== more properties of the log ======================= *)
\* C15: without the Social Poster integration, a job of either kind with N
\* items that has run to completion has added N entries with placeholder
\* ids to the log (in front of the earlier ones, within the log's 50) and
\* has incremented its counter N times.
C15_FallbackLogsAndCounts ==
    \A t \in DOMAIN threads :
        (~TWITTER_POSTER_AVAILABLE /\ Completed(t)) =>
            LET n == Len(threads[t].queue)
                log == recent_posts_storage IN
            /\ \E old \in StartLogs :
                  LogView(log) = Take(NewEntries(t) \o LogView(old), LogCap)
            /\ \A k \in 1..Min(n, LogCap) : log[k].id = "sim"
            /\ jobs[threads[t].job].stats[Counter(threads[t])] = n

\* the item runner t is working on has no content, or is a reply without
\* a target
InvalidItem(t) ==
    LET item == threads[t].queue[threads[t].i + 1] IN
    \/ item.content = 0
    \/ threads[t].kind = "replying" /\ item.tweetId = 0

\* C16: an item with empty content, or a reply item with no target id, is
\* never passed to the Social Poster and never makes a log entry, whether
\* it comes in a direct request or in the queue of a job.
C16_InvalidItemsAreDropped ==
    /\ \A k \in 1..Len(recent_posts_storage) :
          LET post == recent_posts_storage[k] IN
          /\ post.content # 0
          /\ post.type = "reply" => post.replied_to \notin {<<>>, <<0>>}
    /\ \A t \in DOMAIN threads :
          threads[t].pc = "posting" => ~InvalidItem(t)


(* ========================= properties of the stats ====================== *)
\* C21: for every job of the store, postsToday and repliesToday never
\* decrease from one state to the next, whatever the step: create, start,
\* stop, pause, rename or a step of a runner.
C21_CountersNeverDecrease ==
    [][\A id \in DOMAIN jobs :
          /\ id \in DOMAIN jobs'
          /\ jobs'[id].stats.postsToday >= jobs[id].stats.postsToday
          /\ jobs'[id].stats.repliesToday >= jobs[id].stats.repliesToday]_vars


(* =================== more properties of the log entries ================= *)
\* entry e is what a post made in this step leaves: a runner's Social Poster
\* call that returns success, a runner's simulated post, or a direct post
\* that succeeded or was simulated
PostedNow(e) ==
    \/ \E t \in DOMAIN threads :
          /\ Moves(t)
          /\ \/ threads[t].pc = "posting" /\ TWITTER_POSTER_AVAILABLE
             \/ threads[t].pc = "append" /\ ~TWITTER_POSTER_AVAILABLE
          /\ threads'[t].pc = "chk"
          /\ e = RunnerPost(threads[t])
    \/ /\ main.pc = "idle"
       /\ main'.pc = "chk"
       /\ \E c \in DirectContents \ {0}, r \in DirectTargets \ {0} :
             LET id == IF TWITTER_POSTER_AVAILABLE THEN "real" ELSE "sim" IN
             \/ e = make_post(id, c, "post", <<>>)
             \/ e = make_post(id, c, "reply", <<r>>)

\* C22: every entry is put in the log right after a Social Poster success
\* or a simulated post of exactly that content, a failed real post adds
\* none; and an entry, once in the log, is never changed: a step leaves the
\* log as it is, puts one new entry in front of it, or cuts entries off its
\* back, so that an entry only moves toward the back until it is evicted.
C22_EntriesArePostsAndFixed ==
    [][/\ \A t \in DOMAIN threads :
             FailedReturn(t) => recent_posts_storage' = recent_posts_storage
       /\ LET log == recent_posts_storage IN
          \/ log' = log
          \/ /\ Len(log') = Len(log) + 1
             /\ Tail(log') = log
             /\ PostedNow(log'[1])
          \/ /\ Len(log') < Len(log)
             /\ log' = SubSeq(log, 1, Len(log'))]_vars

\* C23: in every reachable state a log entry carries a replied-to record
\* only if its kind is reply, and the engagement counters (likes, retweets,
\* replies) of every log entry are all zero.
C23_RepliedToAndEngagement ==
    \A k \in 1..Len(recent_posts_storage) :
        LET post == recent_posts_storage[k] IN
        /\ post.replied_to # <<>> => post.type = "reply"
        /\ post.engagement = [likes |-> 0, retweets |-> 0, replies |-> 0]

\* the log holds a direct reply with its target next to a post of a job
C23_Witness ==
    \E j, k \in 1..Len(recent_posts_storage) :
        /\ recent_posts_storage[j].type = "reply"
        /\ recent_posts_storage[j].replied_to = <<5>>
        /\ recent_posts_storage[k].type = "post"
        /\ recent_posts_storage[k].content = 1
        /\ recent_posts_storage[k].replied_to = <<>>

\* what a direct request leaves of the log: answer r, posted entry e
DirectAnswer(r, e, outcome) ==
    LET log == recent_posts_storage IN
    /\ r.simulated <=> ~TWITTER_POSTER_AVAILABLE
    /\ (TWITTER_POSTER_AVAILABLE /\ outcome = "ok") =>
          r.success /\ ~r.simulated
    /\ r.success <=> (~TWITTER_POSTER_AVAILABLE \/ outcome = "ok")
    /\ IF r.success
       THEN log' = <<e>> \o log
       ELSE log' = log

\* C24: a direct post or direct reply with valid input answers with
\* simulated = true exactly when there is no Social Poster integration and
\* with simulated = false when a real post succeeded, and in both cases
\* appends exactly one entry to the log; when a real post fails the answer
\* has success = false and the log is unchanged.
C24_DirectAnswerAndLog ==
    [][\A c \in DirectContents \ {0}, o \in Outcomes :
          LET id == IF TWITTER_POSTER_AVAILABLE THEN "real" ELSE "sim" IN
          /\ post_to_twitter_endpoint(c, o) =>
                DirectAnswer(post_to_twitter_returns(c, o),
                             make_post(id, c, "post", <<>>), o)
          /\ \A r \in DirectTargets \ {0} :
                post_reply_with_tracking_endpoint(c, r, o) =>
                   DirectAnswer(post_reply_with_tracking_returns(c, r, o),
                                make_post(id, c, "reply", <<r>>), o)]_vars

\* without the integration, a direct post and then a direct reply were
\* answered, and both are in the log
C24_Witness ==
    /\ ~TWITTER_POSTER_AVAILABLE
    /\ main.pc = "idle"
    /\ direct = 2
    /\ Len(recent_posts_storage) >= 2
    /\ recent_posts_storage[1] = make_post("sim", 3, "reply", <<5>>)
    /\ recent_posts_storage[2] = make_post("sim", 3, "post", <<>>)


(* ====================== more properties of the stats ==================== *)
\* C25: the runner of a posting job changes only postsToday and the runner
\* of a replying job only repliesToday: no runner step changes the other
\* counter or successRate, so that repliesToday of a posting job and
\* postsToday of a replying job stay 0.
C25_RunnerCountsItsOwnKind ==
    [][/\ \A t \in DOMAIN threads :
             LET th == threads[t]
                 old == jobs[th.job].stats
                 new == jobs'[th.job].stats IN
             Moves(t) =>
                 /\ new.successRate = old.successRate
                 /\ th.kind = "posting" => new.repliesToday = old.repliesToday
                 /\ th.kind = "replying" => new.postsToday = old.postsToday
       /\ \A id \in DOMAIN jobs' :
             /\ jobs'[id].type = "posting" => jobs'[id].stats.repliesToday = 0
             /\ jobs'[id].type = "replying" => jobs'[id].stats.postsToday = 0]_vars


(* ===================== properties of concurrent runs ==================== *)
\* C26: when two workers (two runners, or a runner and a direct post)
\* append to the log at the same time, no interleaving of their insert and
\* truncate-and-reassign steps loses an entry: the assignment that ends an
\* append leaves the log it finds but for the entries beyond the 50th, the
\* oldest ones.
C26_ConcurrentAppendsKeepBoth ==
    [][(main_assign \/ \E t \in DOMAIN threads : run_assign(t)) =>
          recent_posts_storage' = Take(recent_posts_storage, LogCap)]_vars

\* C27: when start succeeds for a job that was not running and no stop or
\* pause follows, the run it begins goes through every queued item, also
\* when a runner of an earlier run of the job had not returned yet: that
\* runner's last write of "stopped" does not end the new run early.
C27_RestartRunsTheWholeQueue ==
    \A t \in DOMAIN threads :
        (t = MaxThreads /\ threads[t].pc \in {"finish", "exit"}) =>
            threads[t].i = Len(threads[t].queue)

\* C28: whenever start(id) reports failure (an unknown id, or a job whose
\* type is neither posting nor replying), the status and lastRun of the job
\* are what they were before the call and no runner has been spawned.
C28_FailedStartChangesNothing ==
    [][\A id \in AllIds :
          (start_job(id) /\ ~start_job_returns(id)) =>
              /\ threads' = threads
              /\ running_threads' = running_threads
              /\ DOMAIN jobs' = DOMAIN jobs
              /\ id \in DOMAIN jobs =>
                    /\ jobs'[id].status = jobs[id].status
                    /\ jobs'[id].lastRun = jobs[id].lastRun]_vars

\* C29: a run begun by start after a stop, a pause or a finished run begins
\* at the first queued item; no resume position is kept, so the items the
\* earlier run posted are submitted again.  A new runner is spawned at
\* index 0, takes the whole queue of the job, and its calls go on from the
\* first item one by one.
C29_RestartBeginsAtFirstItem ==
    [][\A t \in DOMAIN threads' :
          IF t \notin DOMAIN threads
          THEN threads'[t].i = 0 /\ threads'[t].pc = "start"
          ELSE LET th == threads[t]
                   nx == threads'[t] IN
               /\ (Moves(t) /\ th.pc = "start") =>
                     /\ nx.i = 0
                     /\ nx.queue = jobs[th.job].approved_content
                     /\ nx.pc = IF Len(nx.queue) = 0
                                THEN (IF th.kind = "posting" THEN "exit"
                                      ELSE "finish")
                                ELSE "check"
               /\ Submits(t) => th.pc = "check" /\ nx.i = th.i
               /\ (Moves(t) /\ nx.pc = "check" /\ th.pc # "start") =>
                     nx.i = th.i + 1]_vars

\* the first run of a job posted item 1 and has ended; the runner of the
\* second run is submitting item 1 again
C29_Witness ==
    \E t, u \in DOMAIN threads :
        /\ t < u
        /\ threads[t].job = threads[u].job
        /\ threads[t].pc = "exit"
        /\ obs[t].succ >= 1
        /\ jobs[threads[t].job].stats[Counter(threads[t])] >= 1
        /\ threads[u].pc = "posting"
        /\ threads[u].i = 0
        /\ threads[u].queue = threads[t].queue


(* =================== properties of the scheduled batch ================== *)
\* C30: a post-scheduled-content request with a non-empty item list is
\* answered, with and without the Social Poster integration, with a results
\* list of exactly one entry per submitted item and with successful_posts
\* equal to the number of results marked success; and between consecutive
\* posts lies the delay: after an item that is posted and is not the last,
\* the handler comes to the next item only out of the delay.
C30_ScheduledBatchAnswer ==
    [][/\ IF main.pc = "done" /\ scheduled_return
          THEN LET r == post_scheduled_content_returns(main.frame)
                   items == main.frame.content_items IN
               /\ Len(r.results) = Len(items)
               /\ \A k \in 1..Len(items) : r.results[k].content = items[k]
               /\ r.successful_posts =
                     Cardinality({k \in 1..Len(r.results) : r.results[k].success})
          ELSE TRUE
       /\ IF main.pc = "item"
          THEN main.frame.content_items[main.frame.i + 1] # 0 =>
                  main'.pc \in {"delay", "done"}
          ELSE TRUE]_vars

====
